---- MODULE Spec2Model ----
(***************************************************************************)
(* Questionnaire persistence and answer normalization of the               *)
(* back-webSaludMental backend: the Questionnaire model, the               *)
(* /api/questionnaires routes, the admin repair sweeps and the dashboard's *)
(* read-path answer extraction.                                            *)
(***************************************************************************)
EXTENDS Integers, Sequences, FiniteSets, TLC

(***************************************************************************)
(* JavaScript values as they arrive in a JSON request body.  Every value   *)
(* is a record of one shape: t is the kind, s the text of a string, n the  *)
(* number (or 0/1 of a boolean), f the ordered own properties of an object *)
(* or the indexed elements of an array.                                    *)
(***************************************************************************)
Null == [t |-> "null", s |-> "", n |-> 0, f |-> <<>>]

Undefined == [t |-> "undefined", s |-> "", n |-> 0, f |-> <<>>]

Str(x) == [t |-> "string", s |-> x, n |-> 0, f |-> <<>>]

Num(x) == [t |-> "number", s |-> "", n |-> x, f |-> <<>>]

Bool(b) == [t |-> "boolean", s |-> "", n |-> IF b THEN 1 ELSE 0, f |-> <<>>]

Fld(key, val) == [k |-> key, v |-> val]

Obj(fields) == [t |-> "object", s |-> "", n |-> 0, f |-> fields]

Arr(elems) ==
  [t |-> "array", s |-> "", n |-> 0,
   f |-> [i \in 1..Len(elems) |-> Fld(ToString(i - 1), elems[i])]]

\* typeof v
TypeOf(v) == IF v.t \in {"null", "object", "array"} THEN "object" ELSE v.t

\* ToBoolean(v): the truthiness every `a && b`, `!a` and `if (a)` tests
Truthy(v) ==
  IF v.t = "string" THEN v.s # ""
  ELSE IF v.t \in {"number", "boolean"} THEN v.n # 0
  ELSE v.t \in {"object", "array"}

HasOwn(v, key) == \E i \in 1..Len(v.f) : v.f[i].k = key

\* v.key on a value parsed from JSON: the own property, else undefined
\* (none of the names the code reads is inherited from a prototype)
Get(v, key) ==
  IF HasOwn(v, key)
  THEN v.f[CHOOSE i \in 1..Len(v.f) : v.f[i].k = key].v
  ELSE Undefined

\* String.prototype.includes
Contains(s, m) ==
  \E i \in 1..(Len(s) - Len(m) + 1) : SubSeq(s, i, i + Len(m) - 1) = m

\* The outcome of an expression: a string, or a thrown TypeError
Ok(x) == [ok |-> TRUE, s |-> x]

Throw == [ok |-> FALSE, s |-> "TypeError"]

RECURSIVE JSString(_)
RECURSIVE ArrayJoin(_, _)

\* Array.prototype.join(","): null and undefined elements give ""
ArrayJoin(elems, i) ==
  IF i > Len(elems) THEN Ok("")
  ELSE LET e == elems[i].v
           head == IF e.t \in {"null", "undefined"} THEN Ok("") ELSE JSString(e)
           tail == ArrayJoin(elems, i + 1)
       IN IF ~head.ok \/ ~tail.ok THEN Throw
          ELSE IF i = Len(elems) THEN head
          ELSE Ok(head.s \o "," \o tail.s)

\* String(v).  An object is converted by OrdinaryToPrimitive: an own
\* "toString" property parsed from JSON is not callable, valueOf returns
\* the object itself, and the conversion throws a TypeError.
JSString(v) ==
  IF v.t = "string" THEN Ok(v.s)
  ELSE IF v.t = "number" THEN Ok(ToString(v.n))
  ELSE IF v.t = "boolean" THEN Ok(IF v.n = 1 THEN "true" ELSE "false")
  ELSE IF v.t = "null" THEN Ok("null")
  ELSE IF v.t = "undefined" THEN Ok("undefined")
  ELSE IF v.t = "array" THEN ArrayJoin(v.f, 1)
  ELSE IF HasOwn(v, "toString") THEN Throw
  ELSE Ok("[object Object]")

RECURSIVE JSONStringify(_)
RECURSIVE JSONMembers(_, _, _)

\* The members of an object or array between the brackets, from index i on.
\* An object skips undefined properties, an array writes them as null.
JSONMembers(v, i, first) ==
  IF i > Len(v.f) THEN ""
  ELSE LET e == v.f[i]
           skip == v.t = "object" /\ e.v.t = "undefined"
           item == IF v.t = "object"
                   THEN "\"" \o e.k \o "\":" \o JSONStringify(e.v)
                   ELSE IF e.v.t = "undefined" THEN "null"
                   ELSE JSONStringify(e.v)
       IN IF skip THEN JSONMembers(v, i + 1, first)
          ELSE (IF first THEN "" ELSE ",") \o item \o JSONMembers(v, i + 1, FALSE)

\* JSON.stringify(v) for v other than undefined (the strings of the model
\* hold no character that needs escaping)
JSONStringify(v) ==
  IF v.t = "string" THEN "\"" \o v.s \o "\""
  ELSE IF v.t = "number" THEN ToString(v.n)
  ELSE IF v.t = "boolean" THEN (IF v.n = 1 THEN "true" ELSE "false")
  ELSE IF v.t \in {"null", "undefined"} THEN "null"
  ELSE IF v.t = "array" THEN "[" \o JSONMembers(v, 1, TRUE) \o "]"
  ELSE "{" \o JSONMembers(v, 1, TRUE) \o "}"

Marker == "[object Object]"

SinRespuesta == "Sin respuesta"

\* 'Respuesta no valida' (the source writes the a with an acute accent)
RespuestaNoValida == "Respuesta no valida"

(***************************************************************************)
(* Write path: the answer cleaning loop of Questionnaire.create.           *)
(***************************************************************************)

\* A string-valued property: `answer.p && typeof answer.p === 'string'`
IsStringProp(answer, p) == Truthy(Get(answer, p)) /\ Get(answer, p).t = "string"

\* answerText after the extraction branches, before the final check
rawAnswerText(answer) ==
  IF answer.t = "string" THEN Ok(answer.s)
  ELSE IF Truthy(answer) /\ TypeOf(answer) = "object" THEN
    IF IsStringProp(answer, "text") THEN Ok(Get(answer, "text").s)
    ELSE IF IsStringProp(answer, "answer") THEN Ok(Get(answer, "answer").s)
    ELSE IF IsStringProp(answer, "value") THEN Ok(Get(answer, "value").s)
    ELSE IF IsStringProp(answer, "label") THEN Ok(Get(answer, "label").s)
    ELSE IF IsStringProp(answer, "name") THEN Ok(Get(answer, "name").s)
    ELSE JSString(answer)
  ELSE JSString(answer)

\* The final check left out: the text is stored as extracted
uncheckedText(text) == text

\* The final check with the offending text kept in the replacement
annotatedText(text) ==
  IF Contains(text, Marker) THEN RespuestaNoValida \o ": " \o text ELSE text

\* The replacement of a text that contains the corruption marker
checkedText(text) ==
  IF Contains(text, Marker) THEN RespuestaNoValida ELSE text

\* The text stored for one answer, or the TypeError String(answer) threw
answerText(answer) ==
  LET r == rawAnswerText(answer)
  IN IF r.ok THEN Ok(checkedText(r.s)) ELSE r

RECURSIVE cleanEntries(_, _)
\* Object.entries(answers).forEach: the cleaned entries from index i on
cleanEntries(answers, i) ==
  IF i > Len(answers.f) THEN <<>>
  ELSE <<Fld(answers.f[i].k, Str(answerText(answers.f[i].v).s))>>
         \o cleanEntries(answers, i + 1)

\* TRUE when cleaning some entry throws
cleanThrows(answers) ==
  /\ Truthy(answers) /\ TypeOf(answers) = "object"
  /\ \E i \in 1..Len(answers.f) : ~answerText(answers.f[i].v).ok

\* cleanAnswers: {} unless answers is a non-null object
cleanAnswers(answers) ==
  IF Truthy(answers) /\ TypeOf(answers) = "object"
  THEN Obj(cleanEntries(answers, 1))
  ELSE Obj(<<>>)

(***************************************************************************)
(* Read path: processAnswerData of the admin dashboard.                    *)
(***************************************************************************)

\* Object.values(answerData).find(v => v !== null && v !== undefined)
firstValidValue(answerData) ==
  LET idx == {i \in 1..Len(answerData.f) :
                answerData.f[i].v.t \notin {"null", "undefined"}}
  IN IF idx = {} THEN Undefined
     ELSE answerData.f[CHOOSE i \in idx : \A j \in idx : i <= j].v

\* The answer text the dashboard shows for one stored answer
processAnswerData(answerData) ==
  IF answerData.t \in {"null", "undefined"} THEN Ok(SinRespuesta)
  ELSE IF answerData.t = "string" THEN Ok(answerData.s)
  ELSE IF TypeOf(answerData) = "object" THEN
    LET a == Get(answerData, "answer")
    IN IF Truthy(a) /\ TypeOf(a) = "object" /\ Truthy(Get(a, "answer"))
       THEN JSString(Get(a, "answer"))
       ELSE IF Truthy(a) THEN JSString(a)
       ELSE IF Truthy(Get(answerData, "value"))
       THEN JSString(Get(answerData, "value"))
       ELSE IF Truthy(Get(answerData, "response"))
       THEN JSString(Get(answerData, "response"))
       ELSE IF Truthy(Get(answerData, "text"))
       THEN JSString(Get(answerData, "text"))
       ELSE IF Truthy(firstValidValue(answerData))
       THEN JSString(firstValidValue(answerData))
       ELSE Ok(JSONStringify(answerData))
  ELSE JSString(answerData)

(***************************************************************************)
(* Storage: the users and questionnaires tables.  A JSON column holds text *)
(* that parses to a value, text that does not parse, or NULL.              *)
(***************************************************************************)

RECURSIVE JSONParsed(_)
RECURSIVE ParsedMembers(_, _)

ParsedMembers(v, i) ==
  IF i > Len(v.f) THEN <<>>
  ELSE IF v.t = "object" /\ v.f[i].v.t = "undefined" THEN ParsedMembers(v, i + 1)
  ELSE <<Fld(v.f[i].k, JSONParsed(v.f[i].v))>> \o ParsedMembers(v, i + 1)

\* JSON.parse(JSON.stringify(v)): undefined properties are dropped and
\* undefined array elements become null
JSONParsed(v) ==
  IF v.t = "undefined" THEN Null
  ELSE IF v.t \in {"object", "array"} THEN [v EXCEPT !.f = ParsedMembers(v, 1)]
  ELSE v

\* The column written for the parameter JSON.stringify(v)
Json(v) == [c |-> "json", v |-> JSONParsed(v)]

\* Text that JSON.parse rejects
BadText == [c |-> "bad", v |-> Null]

\* No user id: null, undefined (both fail `!finalUserId` and match no row)
NoUser == 0

AdminEmail == "admin@websaludmental.com"

VARIABLES
  users,            \* rows of the users table: [id, email, role]
  nextUserId,       \* the users id sequence
  questionnaires,   \* rows of the questionnaires table, by id
  nextId,           \* the questionnaires id sequence
  now,              \* CURRENT_TIMESTAMP
  result,           \* what the last operation returned
  raw,              \* the raw answer given to the normalizer
  out,              \* what the normalizer returned for it
  backend,          \* the database the process is connected to
  contactMessages,  \* the contact_messages table: its rows by id, its id sequence
  sweeps            \* the local variables of the sweep handlers in flight

vars ==
  <<users, nextUserId, questionnaires, nextId, now, result, raw, out, backend,
    contactMessages, sweeps>>

dbVars == <<users, nextUserId, questionnaires, nextId, now>>

normVars == <<raw, out>>

Ids == DOMAIN questionnaires

\* SELECT id FROM users WHERE role = 'admin'
adminResult == {u \in users : u.role = "admin"}

\* The first row of adminResult (LIMIT 1)
adminId == (CHOOSE u \in adminResult : \A w \in adminResult : u.id <= w.id).id

\* The owner left as given: no admin attached to an anonymous questionnaire
givenUserId(userId) == userId

\* The owner Questionnaire.create attaches
finalUserId(userId) == IF userId # NoUser THEN userId ELSE adminId

\* Questionnaire.create throws: no admin for an anonymous questionnaire, a
\* TypeError while cleaning, or a NOT NULL column given no value
createThrows(userId, personalInfo, answers) ==
  \/ userId = NoUser /\ adminResult = {}
  \/ cleanThrows(answers)
  \/ personalInfo.t = "undefined"

\* The row Questionnaire.create inserts at time t
newRow(userId, type, personalInfo, answers, completed, t) ==
  [user_id |-> finalUserId(userId),
   type |-> type,
   personal_info |-> Json(personalInfo),
   answers |-> Json(cleanAnswers(answers)),
   status |-> IF completed THEN "completed" ELSE "pending",
   created_at |-> t,
   updated_at |-> t]

\* The table holding row r alone: the rows there before are overwritten
replacingInsert(id, r) == [i \in {id} |-> r]

\* The table with row r inserted under id
Insert(id, r) ==
  [i \in Ids \cup {id} |-> IF i = id THEN r ELSE questionnaires[i]]

\* What an operation returned: success and the id concerned; a sweep
\* answers with a report, the counters of its JSON body
Res(op, ok, id) == [op |-> op, ok |-> ok, id |-> id, body |-> Obj(<<>>)]

Report(op, body) == [op |-> op, ok |-> TRUE, id |-> 0, body |-> body]

\* res.json of the fix sweep
fixReport(totalQuestionnaires, fixedCount) ==
  Obj(<<Fld("totalQuestionnaires", Num(totalQuestionnaires)),
        Fld("fixedCount", Num(fixedCount))>>)

\* res.json of the clean sweep: with nothing to delete it returns early
cleanReport(deleted, remaining) ==
  IF deleted = 0 THEN Obj(<<Fld("deleted", Num(0))>>)
  ELSE Obj(<<Fld("deleted", Num(deleted)), Fld("remaining", Num(remaining))>>)

(***************************************************************************)
(* Bounds and the inputs the operations draw from.                         *)
(***************************************************************************)
MaxId == 2

MaxClock == 2

MaxDepth == 2

MaxFields == 2

Ana ==
  Obj(<<Fld("nombre", Str("Ana")), Fld("apellidos", Str("Lopez")),
        Fld("edad", Str("30")), Fld("genero", Str("F")),
        Fld("correo", Str("ana@x.com")), Fld("orientacionSexual", Str("N/D"))>>)

AnaPartial == Obj(<<Fld("nombre", Str("Ana")), Fld("correo", Str("ana@x.com"))>>)

PersonalInfoInputs == {Ana, AnaPartial}

TypeInputs == {"pareja", "personalidad", "invalid"}

\* Answers mappings: clean text, the historical nested shape with a null,
\* text that holds the corruption marker, a record String() cannot convert
CleanAnswers == Obj(<<Fld("0", Str("Si, mucho"))>>)

NestedAnswers ==
  Obj(<<Fld("0", Obj(<<Fld("answer", Obj(<<Fld("answer", Str("Si, mucho"))>>))>>)),
        Fld("1", Null)>>)

MarkedAnswers == Obj(<<Fld("0", Str("[object Object]"))>>)

ThrowingAnswers == Obj(<<Fld("0", Obj(<<Fld("toString", Str("x"))>>))>>)

(***************************************************************************)
(* Intake: Questionnaire.create and the routes that call it.               *)
(***************************************************************************)

\* scripts/migrate-production.js: the default admin, unless the email exists
SeedAdmin ==
  /\ \A u \in users : u.email # AdminEmail
  /\ users' = users \cup {[id |-> nextUserId, email |-> AdminEmail, role |-> "admin"]}
  /\ nextUserId' = nextUserId + 1
  /\ result' = Res("seed", TRUE, nextUserId)
  /\ UNCHANGED <<questionnaires, nextId, now, normVars, backend, contactMessages, sweeps>>

\* Questionnaire.create(data): the row is inserted and its id returned, or
\* the call throws and nothing is stored
create(op, userId, type, personalInfo, answers, completed) ==
  IF createThrows(userId, personalInfo, answers)
  THEN /\ result' = Res(op, FALSE, 0)
       /\ UNCHANGED <<questionnaires, nextId>>
  ELSE /\ questionnaires' =
            Insert(nextId, newRow(userId, type, personalInfo, answers, completed, now))
       /\ nextId' = nextId + 1
       /\ result' = Res(op, TRUE, nextId)

\* A direct call of Questionnaire.create, by a known user or by nobody
Create(types, infos, answerMaps, flags) ==
  /\ nextId <= MaxId
  /\ \E userId \in {NoUser} \cup {u.id : u \in users}, type \in types,
        personalInfo \in infos, answers \in answerMaps, completed \in flags :
       create(IF userId = NoUser THEN "createAnonymous" ELSE "create",
              userId, type, personalInfo, answers, completed)
  /\ UNCHANGED <<users, nextUserId, now, normVars, backend, contactMessages, sweeps>>

requiredFields == <<"nombre", "apellidos", "edad", "genero", "correo", "orientacionSexual">>

\* POST /start: missingFields
missingFields(personalInfo) ==
  {i \in 1..Len(requiredFields) : ~Truthy(Get(personalInfo, requiredFields[i]))}

\* POST /api/questionnaires/start
Start(types, infos) ==
  /\ nextId <= MaxId
  /\ \E type \in types, personalInfo \in infos :
       IF type \notin {"pareja", "personalidad"} \/ missingFields(personalInfo) # {}
       THEN /\ result' = Res("start", FALSE, 0)
            /\ UNCHANGED <<users, nextUserId, questionnaires, nextId>>
       ELSE LET correo == Get(personalInfo, "correo").s
                found == {u \in users : u.email = correo}
                userId == IF found = {} THEN nextUserId
                          ELSE (CHOOSE u \in found : TRUE).id
            IN /\ users' = IF found = {}
                           THEN users \cup {[id |-> nextUserId, email |-> correo,
                                             role |-> "assistant"]}
                           ELSE users
               /\ nextUserId' = IF found = {} THEN nextUserId + 1 ELSE nextUserId
               /\ create("start", userId, type, personalInfo, Obj(<<>>), FALSE)
  /\ UNCHANGED <<now, normVars, backend, contactMessages, sweeps>>

\* POST /sync: the logging before the validation throws a TypeError on a
\* null body field or on an answer that String() cannot convert
syncLogThrows(personalInfo, answers) ==
  \/ personalInfo.t \in {"null", "undefined"}
  \/ answers.t \in {"null", "undefined"}
  \/ \E i \in 1..Len(answers.f) : ~JSString(answers.f[i].v).ok

\* POST /sync: the validation of the required data
syncRejects(type, personalInfo) ==
  type = "" \/ ~Truthy(personalInfo) \/ ~Truthy(Get(personalInfo, "correo"))

\* POST /api/questionnaires/sync
Sync(types, infos, answerMaps, flags) ==
  /\ nextId <= MaxId
  /\ \E type \in types, personalInfo \in infos, answers \in answerMaps,
        completed \in flags :
       IF syncLogThrows(personalInfo, answers) \/ syncRejects(type, personalInfo)
       THEN result' = Res("sync", FALSE, 0) /\ UNCHANGED <<questionnaires, nextId>>
       ELSE create("sync", NoUser, type, personalInfo, answers, completed)
  /\ UNCHANGED <<users, nextUserId, now, normVars, backend, contactMessages, sweeps>>

(***************************************************************************)
(* Questionnaire.update and POST /:id/save.                                *)
(***************************************************************************)

\* WHERE id = $n AND user_id = $m: a NULL user id matches no row
Matches(id, userId) ==
  id \in Ids /\ userId # NoUser /\ questionnaires[id].user_id = userId

\* The row after the SET clause update builds from data, at time t
updatedRow(r, personalInfo, answers, completed, t) ==
  [r EXCEPT
     !.personal_info = IF Truthy(personalInfo) THEN Json(personalInfo) ELSE @,
     !.answers = IF Truthy(answers) THEN Json(answers) ELSE @,
     !.status = IF completed.t = "undefined" THEN @
                ELSE IF Truthy(completed) THEN "completed" ELSE "pending",
     !.updated_at = IF completed.t = "undefined" THEN @ ELSE t]

\* config/database.js: PostgreSQL when DATABASE_URL names a remote server,
\* SQLite otherwise
Backends == {"postgres", "sqlite"}

Parsed(v) == [ok |-> TRUE, v |-> v]

SyntaxError == [ok |-> FALSE, v |-> Null]

\* JSON.parse(s) of a text that is not the output of JSON.stringify: of
\* the texts String() gives in the model only the literals are JSON
parseText(s) ==
  IF s = "null" THEN Parsed(Null)
  ELSE IF s = "true" THEN Parsed(Bool(TRUE))
  ELSE IF s = "false" THEN Parsed(Bool(FALSE))
  ELSE IF \E n \in 0..9 : ToString(n) = s
  THEN Parsed(Num(CHOOSE n \in 0..9 : ToString(n) = s))
  ELSE SyntaxError

\* JSON.parse(x) of a value that is not a text: the argument is converted
\* with String() first
parseValue(v) ==
  IF v.t \in {"object", "array"}
  THEN LET str == JSString(v)
       IN IF str.ok THEN parseText(str.s) ELSE SyntaxError
  ELSE IF v.t = "string" THEN parseText(v.s)
  ELSE Parsed(v)

\* JSON.parse(row.column): SQLite returns the TEXT column as written, so
\* the text of JSON.stringify parses back; pg returns a JSONB column
\* already parsed, and JSON.parse is given the value
parseColumn(cell) ==
  IF cell.c = "bad" THEN SyntaxError
  ELSE IF cell.c = "null" THEN Parsed(Null)
  ELSE IF backend = "sqlite" THEN Parsed(cell.v)
  ELSE parseValue(cell.v)

\* JSON.parse of a stored column throws
parseThrows(cell) == ~parseColumn(cell).ok

\* !row.column: NULL, or with pg a falsy JSONB value
falsyColumn(cell) ==
  cell.c = "null" \/ (cell.c = "json" /\ backend = "postgres" /\ ~Truthy(cell.v))

\* Questionnaire.findById(id, userId) throws on a row it cannot parse; with
\* no userId the query is by id alone
findByIdThrows(rows, id, userId) ==
  /\ id \in DOMAIN rows
  /\ userId # NoUser => rows[id].user_id = userId
  /\ parseThrows(rows[id].personal_info) \/ parseThrows(rows[id].answers)

\* Questionnaire.update(id, userId, data)
update(op, id, userId, personalInfo, answers, completed) ==
  LET some == Truthy(personalInfo) \/ Truthy(answers) \/ completed.t # "undefined"
  IN /\ questionnaires' =
          IF some /\ Matches(id, userId)
          THEN [questionnaires EXCEPT
                  ![id] = updatedRow(@, personalInfo, answers, completed, now)]
          ELSE questionnaires
     /\ result' = Res(op, ~findByIdThrows(questionnaires', id, userId), id)

\* A direct call of Questionnaire.update by a known user
Update(infos, answerMaps, flags) ==
  /\ \E id \in Ids, userId \in {u.id : u \in users}, personalInfo \in infos,
        answers \in answerMaps, completed \in flags :
       update("update", id, userId, personalInfo, answers, completed)
  /\ UNCHANGED <<users, nextUserId, nextId, now, normVars, backend, contactMessages, sweeps>>

\* The userId property of the record findById returns: it has none
foundUserId == NoUser

\* POST /api/questionnaires/:id/save
Save(infos, answerMaps, flags) ==
  /\ \E id \in 1..MaxId, personalInfo \in infos, answers \in answerMaps,
        completed \in flags :
       IF id \notin Ids \/ findByIdThrows(questionnaires, id, NoUser)
       THEN result' = Res("save", FALSE, id) /\ UNCHANGED questionnaires
       ELSE update("save", id, foundUserId, personalInfo, answers,
                   IF completed.t = "undefined" THEN Bool(FALSE) ELSE completed)
  /\ UNCHANGED <<users, nextUserId, nextId, now, normVars, backend, contactMessages, sweeps>>

(***************************************************************************)
(* The admin repair sweeps.                                                *)
(***************************************************************************)

\* The sets of rows whose write the storage rejects during one sweep: none,
\* or one row
NoFailure == {{}}

OneFailure == NoFailure \cup {{id} : id \in 1..MaxId}

\* Time passes
Tick ==
  /\ now < MaxClock
  /\ now' = now + 1
  /\ UNCHANGED <<users, nextUserId, questionnaires, nextId, result, normVars, backend, contactMessages, sweeps>>

\* ORDER BY created_at DESC (rows of one instant: the newest id first)
newerFirst(a, b) ==
  \/ questionnaires[a].created_at > questionnaires[b].created_at
  \/ questionnaires[a].created_at = questionnaires[b].created_at /\ a > b

RECURSIVE newestFirst(_)
\* The ids of S in the order of newerFirst
newestFirst(S) ==
  IF S = {} THEN <<>>
  ELSE LET h == CHOOSE a \in S : \A b \in S \ {a} : newerFirst(a, b)
       IN <<h>> \o newestFirst(S \ {h})

\* The object with property key set to val: replaced in place, else appended
SetField(o, key, val) ==
  IF HasOwn(o, key)
  THEN [o EXCEPT !.f = [i \in 1..Len(o.f) |->
                          IF o.f[i].k = key THEN Fld(key, val) ELSE o.f[i]]]
  ELSE [o EXCEPT !.f = Append(o.f, Fld(key, val))]

DefaultPersonalInfo ==
  Obj(<<Fld("nombre", Str("Usuario")), Fld("apellidos", Str("Desconocido")),
        Fld("edad", Str("N/A")), Fld("genero", Str("N/A")),
        Fld("correo", Str("N/A")), Fld("orientacionSexual", Str("N/A"))>>)

fieldDefault(field) ==
  IF field = "nombre" THEN "Usuario"
  ELSE IF field = "apellidos" THEN "Desconocido" ELSE "N/A"

\* JSON.parse(row.column || '{}')
fixParse(cell) == IF falsyColumn(cell) THEN Parsed(Obj(<<>>)) ELSE parseColumn(cell)

\* The value of JSON.parse(row.column || '{}') when it does not throw
parseOrEmpty(cell) == fixParse(cell).v

RECURSIVE fillFields(_, _)
\* The loop over requiredFields from index i on
fillFields(info, i) ==
  IF i > Len(requiredFields) THEN info
  ELSE fillFields(IF ~Truthy(Get(info, requiredFields[i]))
                  THEN SetField(info, requiredFields[i], Str(fieldDefault(requiredFields[i])))
                  ELSE info, i + 1)

\* fix sweep: newPersonalInfo of a row
newPersonalInfo(row) ==
  IF ~fixParse(row.personal_info).ok THEN DefaultPersonalInfo
  ELSE fillFields(parseOrEmpty(row.personal_info), 1)

answersHaveError(cell) ==
  LET a == parseOrEmpty(cell)
  IN a.t = "null" \/ Get(a, "error") = Str("Error parseando respuestas")

\* The answers left as stored, whether or not they parse
keptAnswers(row) == row.answers.v

\* fix sweep: newAnswers of a row
newAnswers(row) ==
  IF ~fixParse(row.answers).ok \/ answersHaveError(row.answers) THEN Obj(<<>>)
  ELSE parseOrEmpty(row.answers)

\* fix sweep: needsUpdate of a row
needsUpdate(row) ==
  \/ ~fixParse(row.personal_info).ok
  \/ newPersonalInfo(row) # parseOrEmpty(row.personal_info)
  \/ ~fixParse(row.answers).ok \/ answersHaveError(row.answers)

\* fix sweep: reading a field of personal_info that parsed to null throws
\* outside the per-row try blocks
fixRowThrows(row) ==
  fixParse(row.personal_info).ok /\ parseOrEmpty(row.personal_info).t = "null"

\* fix sweep: the UPDATE of row id from the row read, at time t
fixedTable(table, id, row, t) ==
  IF id \in DOMAIN table
  THEN [table EXCEPT ![id].personal_info = Json(newPersonalInfo(row)),
                     ![id].answers = Json(newAnswers(row)),
                     ![id].updated_at = t]
  ELSE table

\* An UPDATE with no WHERE clause that every storage accepts: every row
\* gets the values and the time
unrestrictedWrite(table, id, row, t, failing) ==
  [ok |-> TRUE,
   table |-> [i \in DOMAIN table |->
                [table[i] EXCEPT !.personal_info = Json(newPersonalInfo(row)),
                                 !.answers = Json(newAnswers(row)),
                                 !.updated_at = t]]]

\* The repair merged with the delete policy: the row to repair is deleted
deletingWrite(table, id, row, t, failing) ==
  [ok |-> TRUE, table |-> [i \in DOMAIN table \ {id} |-> table[i]]]

\* fix sweep: the UPDATE statement of one row.  It sets updated_at = NOW(),
\* a function SQLite does not have: there the statement is rejected, as it
\* is for a row of failing.
fixWrite(table, id, row, t, failing) ==
  IF id \in failing \/ backend = "sqlite"
  THEN [ok |-> FALSE, table |-> table]
  ELSE [ok |-> TRUE, table |-> fixedTable(table, id, row, t)]

RECURSIVE fixRows(_, _, _, _, _)
\* fix sweep: the loop over the rows read, from index i on.  An UPDATE the
\* storage rejects throws out of the loop, as a null personal_info does.
fixRows(ids, i, table, count, failing) ==
  IF i > Len(ids) THEN [table |-> table, count |-> count, ok |-> TRUE]
  ELSE LET row == questionnaires[ids[i]]
           written == fixWrite(table, ids[i], row, now, failing)
       IN IF fixRowThrows(row) \/ (needsUpdate(row) /\ ~written.ok)
          THEN [table |-> table, count |-> count, ok |-> FALSE]
          ELSE IF needsUpdate(row)
          THEN fixRows(ids, i + 1, written.table, count + 1, failing)
          ELSE fixRows(ids, i + 1, table, count, failing)

\* POST /api/admin/fix-corrupted-data, the storage rejecting the writes to
\* one of the sets of rows in failures
FixSweep(failures) ==
  /\ \E failing \in failures :
       LET done == fixRows(newestFirst(Ids), 1, questionnaires, 0, failing)
       IN /\ questionnaires' = done.table
          /\ result' = IF done.ok THEN Report("fix", fixReport(Cardinality(Ids), done.count))
                       ELSE Res("fix", FALSE, 0)
  /\ UNCHANGED <<users, nextUserId, nextId, now, normVars, backend, contactMessages, sweeps>>

\* clean sweep: hasCorruptedData of a row, or its JSON is invalid.  A NULL
\* or null answers column and an answer String() cannot convert throw
\* inside the try and count as invalid JSON.
isCorrupted(row) ==
  LET parsed == parseColumn(row.answers)
  IN \/ ~parsed.ok
     \/ parsed.v.t \in {"null", "undefined"}
     \/ \E i \in 1..Len(parsed.v.f) :
          LET str == JSString(parsed.v.f[i].v)
          IN ~str.ok \/ Contains(str.s, Marker)

\* clean sweep: corruptedIds
corruptedIds == {id \in Ids : isCorrupted(questionnaires[id])}

\* DELETE /api/admin/clean-corrupted-data, the storage rejecting the
\* DELETE of the rows in one of the sets of failures: the loop stops at the
\* first of them, with the rows before it (in the order of the SELECT, which
\* has no ORDER BY) deleted
CleanSweep(failures) ==
  /\ \E failing \in failures :
       IF corruptedIds \cap failing = {}
       THEN /\ questionnaires' = [id \in Ids \ corruptedIds |-> questionnaires[id]]
            /\ result' = Report("clean", cleanReport(Cardinality(corruptedIds),
                                                     Cardinality(Ids \ corruptedIds)))
       ELSE \E deleted \in SUBSET (corruptedIds \ failing) :
              /\ questionnaires' = [id \in Ids \ deleted |-> questionnaires[id]]
              /\ result' = Res("clean", FALSE, 0)
  /\ UNCHANGED <<users, nextUserId, nextId, now, normVars, backend, contactMessages, sweeps>>

(***************************************************************************)
(* The program: an empty database, then any sequence of requests.          *)
(***************************************************************************)
NoOutput == [path |-> "none", r |-> Ok(""), prev |-> ""]

\* No sweep handler is in flight
Idle == [pc |-> "idle", rows |-> <<>>, i |-> 1, count |-> 0]

\* The contact_messages table the migration creates, empty
NoMessages == [rows |-> <<>>, nextId |-> 1]

Init ==
  /\ users = {}
  /\ nextUserId = 1
  /\ questionnaires = <<>>
  /\ nextId = 1
  /\ now = 1
  /\ result = Res("init", TRUE, 0)
  /\ backend \in Backends
  /\ raw = Null
  /\ out = NoOutput
  /\ contactMessages = NoMessages
  /\ sweeps = [fix |-> Idle, clean |-> Idle]

\* Every answers mapping the intake is given
AnswersInputs == {CleanAnswers, NestedAnswers, MarkedAnswers, ThrowingAnswers}

Next ==
  \/ SeedAdmin
  \/ Create({"pareja"}, {Ana}, {CleanAnswers, MarkedAnswers}, {FALSE})
  \/ Start(TypeInputs, PersonalInfoInputs)
  \/ Sync({"pareja"}, {Ana}, AnswersInputs \cup {Null}, {FALSE})
  \/ Update({Undefined}, {MarkedAnswers}, {Undefined, Bool(TRUE)})
  \/ Save({Undefined}, {MarkedAnswers}, {Undefined})
  \/ FixSweep(NoFailure)
  \/ CleanSweep(NoFailure)
  \/ Tick

Spec == Init /\ [][Next]_vars

\* The intake paths alone, over every type
NextIntake ==
  \/ SeedAdmin
  \/ Create(TypeInputs, PersonalInfoInputs, AnswersInputs, {FALSE})
  \/ Start(TypeInputs, PersonalInfoInputs)
  \/ Sync(TypeInputs, PersonalInfoInputs, AnswersInputs \cup {Null}, BOOLEAN)

\* The intake reads no stored column: one backend shows all it does
InitIntake == Init /\ backend = "postgres"

SpecIntake == InitIntake /\ [][NextIntake]_vars

(***************************************************************************)
(* The normalizers on their own: one raw answer of any shape, given to the *)
(* write path, to the read path, and submitted through the intake of a     *)
(* deployed system (the admin account exists).                             *)
(***************************************************************************)
Strings == {"Si, mucho", "bar", "", "[object Object]"}

Prims ==
  {Null, Undefined, Num(0), Num(7), Bool(TRUE), Bool(FALSE)} \cup {Str(x) : x \in Strings}

Keys == {"answer", "value", "response", "text", "label", "name", "foo", "baz", "toString"}

RECURSIVE Nested(_)
\* Values nested at most d deep, one property or element per level
Nested(d) ==
  IF d = 0 THEN Prims
  ELSE LET inner == Nested(d - 1)
       IN inner \cup {Obj(<<>>), Arr(<<>>)}
                \cup {Obj(<<Fld(k, v)>>) : k \in Keys, v \in inner}
                \cup {Arr(<<v>>) : v \in inner}

WideValues == {Null, Num(0), Str("bar"), Str("Si, mucho")}

DistinctKeys(fields) ==
  \A i, j \in 1..Len(fields) : fields[i].k = fields[j].k => i = j

\* Records and arrays of 2..n properties or elements
Wide(n) ==
  UNION {{Obj(fields) : fields \in {g \in [1..m -> [k : Keys, v : WideValues]] :
                                      DistinctKeys(g)}}
           \cup {Arr(elems) : elems \in [1..m -> WideValues \cup {Obj(<<>>)}]}
         : m \in 2..n}

\* The raw answers: nested at most d deep, or up to n properties wide
RawValues(d, n) == Nested(d) \cup Wide(n)

AdminUser == [id |-> 1, email |-> AdminEmail, role |-> "admin"]

InitNorm ==
  /\ users = {AdminUser}
  /\ nextUserId = 2
  /\ questionnaires = <<>>
  /\ nextId = 1
  /\ now = 1
  /\ result = Res("init", TRUE, 0)
  /\ backend = "postgres"
  /\ raw \in RawValues(MaxDepth, MaxFields)
  /\ out = NoOutput
  /\ contactMessages = NoMessages
  /\ sweeps = [fix |-> Idle, clean |-> Idle]

\* The write path applied to raw
NormWrite ==
  /\ out' = [path |-> "write", r |-> answerText(raw), prev |-> ""]
  /\ UNCHANGED <<dbVars, result, raw, backend, contactMessages, sweeps>>

\* The read path applied to raw
NormRead ==
  /\ out' = [path |-> "read", r |-> processAnswerData(raw), prev |-> ""]
  /\ UNCHANGED <<dbVars, result, raw, backend, contactMessages, sweeps>>

\* The write path applied to the string it returned
NormAgain ==
  /\ out.path = "write" /\ out.r.ok
  /\ out' = [path |-> "again", r |-> answerText(Str(out.r.s)), prev |-> out.r.s]
  /\ UNCHANGED <<dbVars, result, raw, backend, contactMessages, sweeps>>

\* The answers mapping that holds raw as its only answer
RawAnswers == Obj(<<Fld("0", raw)>>)

NextNorm ==
  \/ NormWrite
  \/ NormRead
  \/ NormAgain
  \/ Create({"pareja"}, {Ana}, {RawAnswers}, {FALSE})
  \/ Sync({"pareja"}, {Ana}, {RawAnswers}, {FALSE})

SpecNorm == InitNorm /\ [][NextNorm]_vars

(***************************************************************************)
(* Properties.                                                             *)
(***************************************************************************)

\* The string answers stored in the rows of the table
StoredStrings ==
  {questionnaires[id].answers.v.f[i].v.s :
     <<id, i>> \in {p \in Ids \X (1..MaxFields + 1) :
                      /\ questionnaires[p[1]].answers.c = "json"
                      /\ p[2] <= Len(questionnaires[p[1]].answers.v.f)
                      /\ questionnaires[p[1]].answers.v.f[p[2]].v.t = "string"}}

\* C1: in every state reached by create, update, save, fix sweep and clean
\* sweep, no stored answer string contains '[object Object]'.
C1_StoredAnswersClean == \A x \in StoredStrings : ~Contains(x, Marker)

\* C2: for every raw answer the string the write path of create returns,
\* and stores, does not contain '[object Object]'.
C2_WriteNeverMarked ==
  /\ out.path = "write" /\ out.r.ok => ~Contains(out.r.s, Marker)
  /\ \A x \in StoredStrings : ~Contains(x, Marker)

\* C2 witness: a record whose extracted text held the marker was normalized
\* and stored as the replacement text
C2_Witness ==
  /\ raw.t \in {"object", "array"}
  /\ rawAnswerText(raw).ok /\ Contains(rawAnswerText(raw).s, Marker)
  /\ out.path = "write" /\ out.r = Ok(RespuestaNoValida)
  /\ StoredStrings = {RespuestaNoValida}

\* C3: the normalizer returns a string for every input and never throws,
\* so a create or sync of any answers succeeds and stores a row.
C3_NormalizerTotal ==
  /\ out.path = "write" => out.r.ok
  /\ result.op \in {"create", "createAnonymous", "sync"} =>
       result.ok /\ result.id \in Ids

\* C4: a null or undefined raw answer is normalized to 'Sin respuesta' on
\* the write path (returned and stored) and on the read path.
C4_NullGivesSentinel ==
  raw.t \in {"null", "undefined"} =>
    /\ out.path \in {"write", "read"} => out.r = Ok(SinRespuesta)
    /\ StoredStrings \subseteq {SinRespuesta}

\* The string rule k of the claimed order extracts from a record, if any:
\* answer, answer.answer, value, response, text, label, name
ClaimedRule(v, k) ==
  IF k = 1 THEN Get(v, "answer")
  ELSE IF k = 2 THEN Get(Get(v, "answer"), "answer")
  ELSE Get(v, <<"value", "response", "text", "label", "name">>[k - 2])

ClaimedMatches(v) ==
  {k \in 1..7 : ClaimedRule(v, k).t = "string" /\ ClaimedRule(v, k).s # ""}

ClaimedFirst(v) ==
  ClaimedRule(v, CHOOSE k \in ClaimedMatches(v) : \A j \in ClaimedMatches(v) : k <= j).s

\* C5: for a record the first rule that matches, in the order answer,
\* answer.answer, value, response, text, label/name, determines the result.
C5_FixedPrecedence ==
  /\ raw.t = "object" /\ ClaimedMatches(raw) # {}
  /\ ~Contains(ClaimedFirst(raw), Marker)
  /\ out.path \in {"write", "read"} /\ out.r.ok
  => out.r = Ok(ClaimedFirst(raw))

\* C6: the doubly nested record {answer: {answer: s}} is normalized to s,
\* also when it is submitted through create.
C6_DoublyNested ==
  LET s == Get(Get(raw, "answer"), "answer")
  IN /\ raw.t = "object" /\ Len(raw.f) = 1
     /\ Get(raw, "answer").t = "object" /\ Len(Get(raw, "answer").f) = 1
     /\ s.t = "string" /\ ~Contains(s.s, Marker)
     => /\ out.path \in {"write", "read"} => out.r = Ok(s.s)
        /\ StoredStrings \subseteq {s.s}

\* C7: a record with none of the known field names is normalized to its
\* first field value that is neither null nor undefined, stringified.
C7_FirstNonNullField ==
  /\ raw.t = "object"
  /\ \A i \in 1..Len(raw.f) : raw.f[i].k \notin {"answer", "value", "response", "text", "label", "name"}
  /\ firstValidValue(raw).t # "undefined"
  /\ out.path \in {"write", "read"} /\ out.r.ok
  => out.r = JSString(firstValidValue(raw))

\* C8: the string the write path returns, given to it again as a raw
\* string, is returned unchanged.
C8_Idempotent == out.path = "again" => out.r = Ok(out.prev)

\* C8 witness: the replacement text of a corrupted record went through
\* the normalizer again
C8_Witness ==
  /\ raw.t = "object" /\ out.path = "again"
  /\ out.prev = RespuestaNoValida /\ out.r.ok

\* C9: no intake path stores a questionnaire whose type is neither
\* 'pareja' nor 'personalidad'.
C9_NoInvalidTypeRow ==
  \A id \in Ids : questionnaires[id].type \in {"pareja", "personalidad"}

\* C10: no stored row has a null owner; a create with no userId attaches
\* the admin's id, and with no admin user it fails and inserts nothing.
C10_AnonymousOwnedByAdmin ==
  /\ [](\A id \in Ids : questionnaires[id].user_id # NoUser)
  /\ [][result'.op \in {"sync", "createAnonymous"} =>
          IF adminResult = {}
          THEN ~result'.ok /\ questionnaires' = questionnaires
          ELSE result'.ok =>
                 /\ result'.id \notin Ids /\ result'.id \in DOMAIN questionnaires'
                 /\ questionnaires'[result'.id].user_id = adminId]_vars

\* C10 witness: an anonymous submission was stored under the admin's id
C10_Witness ==
  /\ adminResult # {}
  /\ result.op \in {"sync", "createAnonymous"} /\ result.ok
  /\ result.id \in Ids
  /\ questionnaires[result.id].user_id = adminId

\* The personalInfo stored in row id, as written
storedPersonalInfo(id) == questionnaires[id].personal_info.v

\* C11: every row the intake stores has a personalInfo with the six
\* required fields non-empty, whatever fields the submission left out.
C11_IntakeDefaultsPersonalInfo ==
  \A id \in Ids :
    /\ questionnaires[id].personal_info.c = "json"
    /\ missingFields(storedPersonalInfo(id)) = {}

(***************************************************************************)
(* The repair sweeps over rows of every kind the intake and update leave:  *)
(* complete and partial personal info, clean and marked answers, on either *)
(* backend, with the storage rejecting at most one row's write per sweep.  *)
(***************************************************************************)
NextSweep ==
  \/ Start({"pareja"}, {Ana})
  \/ Create({"pareja"}, {AnaPartial}, {CleanAnswers}, {FALSE})
  \/ Update({Undefined}, {MarkedAnswers}, {Undefined})
  \/ FixSweep(OneFailure)
  \/ CleanSweep(OneFailure)
  \/ Tick

SpecSweep == Init /\ [][NextSweep]_vars

\* A step of the fix sweep, of the clean sweep: the response is the sweep's
\* and the step is not the passing of time, which alone leaves the last
\* response standing
fixStep == result'.op = "fix" /\ now' = now

cleanStep == result'.op = "clean" /\ now' = now

\* The value of a required field before the sweep, when it was non-empty
presentBefore(id, field) ==
  /\ questionnaires[id].personal_info.c = "json"
  /\ Truthy(Get(storedPersonalInfo(id), field))

\* C12: after a fix sweep that completes, every row has the six required
\* fields non-empty: a field that was present keeps its value, a missing
\* 'nombre' is 'Usuario', 'apellidos' 'Desconocido', any other 'N/A'.
C12_FixSweepDefaults ==
  [][fixStep /\ result'.ok =>
       \A id \in Ids : \A i \in 1..Len(requiredFields) :
         LET field == requiredFields[i]
             after == Get(questionnaires'[id].personal_info.v, field)
         IN /\ id \in DOMAIN questionnaires'
            /\ questionnaires'[id].personal_info.c = "json"
            /\ after = IF presentBefore(id, field)
                       THEN Get(storedPersonalInfo(id), field)
                       ELSE Str(fieldDefault(field))]_vars

\* C13: a create that succeeds returns an id no row had before the call,
\* and a create, succeeding or not, leaves every row there before unchanged.
C13_CreateFreshId ==
  [][/\ nextId' # nextId =>
          /\ result'.ok
          /\ result'.id \notin Ids
          /\ result'.id \in DOMAIN questionnaires'
     /\ result'.op \in {"create", "createAnonymous", "start", "sync"} =>
          \A id \in Ids :
            id \in DOMAIN questionnaires' /\ questionnaires'[id] = questionnaires[id]]_vars

\* C13 witness: a create returned the id of a second row, the first row
\* still stored
C13_Witness ==
  /\ result.op \in {"create", "createAnonymous", "start", "sync"} /\ result.ok
  /\ result.id = 2 /\ Ids = {1, 2}

storedAnswers(id) == questionnaires[id].answers.v

\* The stringified form of an answer contains the corruption marker
marked(answer) ==
  LET str == JSString(answer) IN str.ok /\ Contains(str.s, Marker)

\* C15: a fix sweep that completes keeps every row whose answers hold a
\* marked value, written back with that value replaced by the sentinel.
C15_FixSweepReplacesMarker ==
  [][fixStep /\ result'.ok =>
       \A id \in Ids :
         questionnaires[id].answers.c = "json" =>
           \A i \in 1..Len(storedAnswers(id).f) :
             marked(storedAnswers(id).f[i].v) =>
               /\ id \in DOMAIN questionnaires'
               /\ Get(questionnaires'[id].answers.v, storedAnswers(id).f[i].k)
                    \in {Str(SinRespuesta), Str(RespuestaNoValida)}]_vars

\* The record holds exactly the six required fields, each with its default
isFullDefault(info) ==
  /\ info.t = "object" /\ Len(info.f) = Len(requiredFields)
  /\ \A i \in 1..Len(requiredFields) :
       Get(info, requiredFields[i]) = Str(fieldDefault(requiredFields[i]))

\* The rows of the table the sweep fails to parse a column of
unparsedIds ==
  {id \in Ids : \/ ~fixParse(questionnaires[id].personal_info).ok
                \/ ~fixParse(questionnaires[id].answers).ok}

affectedIds ==
  {id \in Ids : id \notin DOMAIN questionnaires' \/ questionnaires'[id] # questionnaires[id]}

\* The properties of a report that hold a list
reportLists(body) == {i \in 1..Len(body.f) : body.f[i].v.t = "array"}

\* The number the report gives as scanned, and as repaired or deleted
reportScanned(body) == Get(body, "totalQuestionnaires")

reportRepaired(body) ==
  IF HasOwn(body, "fixedCount") THEN Get(body, "fixedCount") ELSE Get(body, "deleted")

\* C17: the report of a sweep that changed rows gives the number of rows
\* read as scanned, the number of rows written back or deleted as repaired,
\* and a list of the ids of those rows.
C17_SweepReport ==
  [][/\ fixStep \/ cleanStep
     /\ result'.ok /\ affectedIds # {}
     => /\ reportScanned(result'.body) = Num(Cardinality(Ids))
        /\ reportRepaired(result'.body) = Num(Cardinality(affectedIds))
        /\ \E i \in reportLists(result'.body) :
             {result'.body.f[i].v.f[j].v : j \in 1..Len(result'.body.f[i].v.f)}
               = {Num(id) : id \in affectedIds}]_vars

\* The rows a sweep step had to repair or delete and left as they were
leftDirty ==
  {id \in Ids :
     /\ id \in DOMAIN questionnaires'
     /\ \/ result'.op = "fix" /\ needsUpdate(questionnaires[id])
                              /\ questionnaires'[id].updated_at # now
        \/ result'.op = "clean" /\ isCorrupted(questionnaires[id])}

\* C18: a sweep during which the storage rejects the write of one row
\* still ends with a report, every other dirty row repaired or deleted.
C18_SweepSurvivesRowFailure ==
  [][fixStep \/ cleanStep =>
       result'.ok /\ Cardinality(leftDirty) <= 1]_vars

\* The answers stored in a row are a mapping of strings free of the marker
cleanStored(row) ==
  /\ row.answers.c = "json" /\ row.answers.v.t = "object"
  /\ \A i \in 1..Len(row.answers.v.f) :
       /\ row.answers.v.f[i].v.t = "string"
       /\ ~Contains(row.answers.v.f[i].v.s, Marker)

\* The answers stored in a row are not valid JSON, or one of their values
\* has a stringified form that contains the marker
corruptedStored(row) ==
  \/ row.answers.c # "json"
  \/ \E i \in 1..Len(row.answers.v.f) : marked(row.answers.v.f[i].v)

\* C19: a clean sweep that completes deletes every corrupted row and no
\* row whose answers are a valid mapping of clean strings.
C19_CleanSweepExact ==
  [][cleanStep /\ result'.ok =>
       \A id \in Ids :
         /\ corruptedStored(questionnaires[id]) => id \notin DOMAIN questionnaires'
         /\ cleanStored(questionnaires[id]) =>
              id \in DOMAIN questionnaires' /\ questionnaires'[id] = questionnaires[id]]_vars

(***************************************************************************)
(* The life of a questionnaire: created, updated, marked as completed.     *)
(***************************************************************************)

\* Questionnaire.markAsCompleted(id, userId).  Its statement names its
\* parameters $3, $1, $2 in that order.  pg binds them by number.  SQLite
\* numbers them as they appear and the adapter binds the array by position:
\* the row is sought by id = userId and user_id = 'completed', and none is
\* found.
markAsCompleted(op, id, userId) ==
  /\ questionnaires' =
       IF backend = "postgres" /\ Matches(id, userId)
       THEN [questionnaires EXCEPT ![id].status = "completed", ![id].updated_at = now]
       ELSE questionnaires
  /\ result' = Res(op, ~findByIdThrows(questionnaires', id, userId), id)

\* A direct call of Questionnaire.markAsCompleted by a known user
MarkAsCompleted ==
  /\ \E id \in Ids, userId \in {u.id : u \in users} :
       markAsCompleted("markAsCompleted", id, userId)
  /\ UNCHANGED <<users, nextUserId, nextId, now, normVars, backend, contactMessages, sweeps>>

\* POST /api/questionnaires/:id/complete
Complete ==
  /\ \E id \in 1..MaxId :
       IF id \notin Ids \/ findByIdThrows(questionnaires, id, NoUser)
       THEN result' = Res("complete", FALSE, id) /\ UNCHANGED questionnaires
       ELSE markAsCompleted("complete", id, foundUserId)
  /\ UNCHANGED <<users, nextUserId, nextId, now, normVars, backend, contactMessages, sweeps>>

NextLife ==
  \/ Start({"pareja"}, {Ana})
  \/ Update({Undefined, AnaPartial}, {Undefined, CleanAnswers}, {Undefined, Bool(TRUE), Bool(FALSE)})
  \/ Save({Undefined}, {CleanAnswers}, {Undefined, Bool(TRUE)})
  \/ MarkAsCompleted
  \/ Complete
  \/ Tick

SpecLife == Init /\ [][NextLife]_vars

\* C20: once a row is completed no update and no markAsCompleted sets it
\* back to pending or changes its answers or personalInfo; markAsCompleted
\* on a completed row leaves its status completed.
C20_CompletedIsFinal ==
  [][\A id \in Ids :
       questionnaires[id].status = "completed" /\ id \in DOMAIN questionnaires' =>
         /\ questionnaires'[id].status = "completed"
         /\ questionnaires'[id].answers = questionnaires[id].answers
         /\ questionnaires'[id].personal_info = questionnaires[id].personal_info]_vars

\* C21: every step that changes the answers, personalInfo or status of a
\* row sets its updated_at to the time of the step and leaves its created_at
\* as it was.
C21_MutationRefreshesUpdatedAt ==
  [][\A id \in Ids :
       /\ id \in DOMAIN questionnaires'
       /\ \/ questionnaires'[id].answers # questionnaires[id].answers
          \/ questionnaires'[id].personal_info # questionnaires[id].personal_info
          \/ questionnaires'[id].status # questionnaires[id].status
       => /\ questionnaires'[id].updated_at = now
          /\ questionnaires'[id].created_at = questionnaires[id].created_at]_vars

(***************************************************************************)
(* The removal of rows: Questionnaire.delete, the public and the admin     *)
(* DELETE routes, and the sweeps.                                          *)
(***************************************************************************)

\* The table without row id
Without(id) == [i \in Ids \ {id} |-> questionnaires[i]]

\* Questionnaire.delete(id, userId): true when a row was deleted
delete(op, id, userId) ==
  /\ questionnaires' = IF Matches(id, userId) THEN Without(id) ELSE questionnaires
  /\ result' = Res(op, Matches(id, userId), id)

\* A direct call of Questionnaire.delete by a known user
Delete ==
  /\ \E id \in Ids, userId \in {u.id : u \in users} : delete("delete", id, userId)
  /\ UNCHANGED <<users, nextUserId, nextId, now, normVars, backend, contactMessages, sweeps>>

\* DELETE /api/questionnaires/:id, which no middleware guards
DeleteRoute ==
  /\ \E id \in 1..MaxId :
       IF id \notin Ids \/ findByIdThrows(questionnaires, id, NoUser)
       THEN result' = Res("deleteRoute", FALSE, id) /\ UNCHANGED questionnaires
       ELSE delete("deleteRoute", id, foundUserId)
  /\ UNCHANGED <<users, nextUserId, nextId, now, normVars, backend, contactMessages, sweeps>>

\* DELETE /api/admin/questionnaires/:id (authenticateToken, requireAdmin)
AdminDelete ==
  /\ \E id \in 1..MaxId :
       IF id \notin Ids
       THEN result' = Res("adminDelete", FALSE, id) /\ UNCHANGED questionnaires
       ELSE questionnaires' = Without(id) /\ result' = Res("adminDelete", TRUE, id)
  /\ UNCHANGED <<users, nextUserId, nextId, now, normVars, backend, contactMessages, sweeps>>

NextRemoval ==
  \/ Start({"pareja"}, {Ana})
  \/ Update({Undefined}, {MarkedAnswers}, {Undefined})
  \/ Delete
  \/ DeleteRoute
  \/ AdminDelete
  \/ FixSweep(NoFailure)
  \/ CleanSweep(NoFailure)
  \/ Tick

SpecRemoval == Init /\ [][NextRemoval]_vars

\* C22: a row present before a step is absent after it only if the step
\* was the admin delete or the clean sweep.
C22_RemovedOnlyByAdmin ==
  [][\A id \in Ids :
       id \notin DOMAIN questionnaires' => result'.op \in {"adminDelete", "clean"}]_vars

(***************************************************************************)
(* The reads: Questionnaire.findById and findByUser behind their routes,   *)
(* the admin listing, and the dashboard that displays the listed answers.  *)
(***************************************************************************)

\* What a read returned: the records in body
Read(op, id, body) == [op |-> op, ok |-> TRUE, id |-> id, body |-> body]

\* The personalInfo and answers of a record a read returns
recordOf(personalInfo, answers) ==
  Obj(<<Fld("personalInfo", personalInfo), Fld("answers", answers)>>)

\* The record findById and findByUser build from a row they can parse
parsedRecord(row) ==
  recordOf(parseColumn(row.personal_info).v, parseColumn(row.answers).v)

\* A row written by an earlier revision into the TEXT columns of SQLite:
\* the text of one of its JSON columns is not JSON (a JSONB column of
\* PostgreSQL cannot hold such text)
LegacyRow ==
  /\ backend = "sqlite" /\ nextId <= MaxId
  /\ \E u \in users, info \in {Json(Ana), BadText}, answers \in {Json(CleanAnswers), BadText} :
       /\ info = BadText \/ answers = BadText
       /\ questionnaires' =
            Insert(nextId, [newRow(u.id, "pareja", Ana, CleanAnswers, FALSE, now)
                              EXCEPT !.personal_info = info, !.answers = answers])
       /\ nextId' = nextId + 1
       /\ result' = Res("legacy", TRUE, nextId)
  /\ UNCHANGED <<users, nextUserId, now, normVars, backend, contactMessages, sweeps>>

\* GET /api/questionnaires/:id: Questionnaire.findById(id, null)
GetById ==
  /\ \E id \in 1..MaxId :
       result' = IF id \notin Ids THEN Read("findById", id, Null)
                 ELSE IF findByIdThrows(questionnaires, id, NoUser)
                 THEN Res("findById", FALSE, id)
                 ELSE Read("findById", id, parsedRecord(questionnaires[id]))
  /\ UNCHANGED <<dbVars, normVars, backend, contactMessages, sweeps>>

\* GET /api/questionnaires/user/:email: Questionnaire.findByUser(user.id)
GetByUser ==
  /\ \E u \in users :
       LET ids == newestFirst({id \in Ids : questionnaires[id].user_id = u.id})
           throws == \E i \in 1..Len(ids) :
                       \/ parseThrows(questionnaires[ids[i]].personal_info)
                       \/ parseThrows(questionnaires[ids[i]].answers)
       IN result' = IF throws THEN Res("findByUser", FALSE, u.id)
                    ELSE Read("findByUser", u.id,
                              Arr([i \in 1..Len(ids) |-> parsedRecord(questionnaires[ids[i]])]))
  /\ UNCHANGED <<dbVars, normVars, backend, contactMessages, sweeps>>

\* admin listing: the record of one row; whatever throws inside the try,
\* a column that does not parse or a null whose property is read, gives
\* the defaults
listed(row) ==
  LET personalInfo == fixParse(row.personal_info)
      answers == fixParse(row.answers)
  IN IF \/ ~personalInfo.ok \/ ~answers.ok
        \/ personalInfo.v.t = "null" \/ answers.v.t = "null"
     THEN recordOf(Obj(<<Fld("nombre", Str("Usuario")), Fld("apellidos", Str("Desconocido"))>>),
                   Obj(<<Fld("error", Str("Error parseando respuestas"))>>))
     ELSE recordOf(personalInfo.v, answers.v)

\* GET /api/admin/questionnaires
AdminList ==
  /\ LET ids == newestFirst(Ids)
     IN result' = Read("list", 0, Arr([i \in 1..Len(ids) |-> listed(questionnaires[ids[i]])]))
  /\ UNCHANGED <<dbVars, normVars, backend, contactMessages, sweeps>>

\* a || b
OrElse(a, b) == IF Truthy(a) THEN a ELSE b

\* AdminDashboard: the text rendered after 'Respuesta:' for one answer
renderedAnswer(answerData) ==
  IF answerData.t = "string" THEN Ok(answerData.s)
  ELSE IF Truthy(answerData) /\ TypeOf(answerData) = "object" THEN
    LET found == OrElse(Get(answerData, "answer"),
                   OrElse(Get(answerData, "value"),
                     OrElse(Get(answerData, "response"), Get(answerData, "text"))))
    IN IF found.t = "string" THEN Ok(found.s) ELSE Ok(RespuestaNoValida)
  ELSE IF Truthy(answerData) THEN JSString(answerData)
  ELSE Ok(SinRespuesta)

\* The answers of the questionnaires of the last listing, one by one
listedAnswers ==
  {Get(result.body.f[i].v, "answers").f[j] :
     <<i, j>> \in {p \in (1..Len(result.body.f)) \X (1..MaxFields) :
                     p[2] <= Len(Get(result.body.f[p[1]].v, "answers").f)}}

\* AdminDashboard: the card of a listed questionnaire renders one answer
Display ==
  /\ result.op = "list"
  /\ \E entry \in listedAnswers :
       out' = [path |-> "display", r |-> renderedAnswer(entry.v), prev |-> entry.k]
  /\ UNCHANGED <<dbVars, result, raw, backend, contactMessages, sweeps>>

\* AdminDashboard: processAnswerData applied to one listed answer
Process ==
  /\ result.op = "list"
  /\ \E entry \in listedAnswers :
       out' = [path |-> "process", r |-> processAnswerData(entry.v), prev |-> entry.k]
  /\ UNCHANGED <<dbVars, result, raw, backend, contactMessages, sweeps>>

NextRead ==
  \/ Start({"pareja"}, {Ana})
  \/ LegacyRow
  \/ Update({Undefined},
            {MarkedAnswers,
             \* a stored answer that is a record of records
             Obj(<<Fld("0", Obj(<<Fld("answer", Obj(<<Fld("foo", Str("bar"))>>))>>))>>)},
            {Undefined})
  \/ GetById
  \/ GetByUser
  \/ AdminList
  \/ Display
  \/ Process

SpecRead == Init /\ [][NextRead]_vars

\* C23: a read of a row whose personalInfo or answers text is malformed
\* JSON raises no error: findById, findByUser and the admin listing return
\* a record.
C23_ReadsNeverRaise ==
  [][LET \* the rows the step reads: the row asked for, the rows of the
         \* user, every row
         readIds == IF result'.op = "findById" THEN Ids \cap {result'.id}
                    ELSE IF result'.op = "findByUser"
                    THEN {id \in Ids : questionnaires[id].user_id = result'.id}
                    ELSE IF result'.op = "list" THEN Ids
                    ELSE {}
     IN /\ questionnaires' = questionnaires
        /\ \E id \in readIds : \/ questionnaires[id].personal_info.c = "bad"
                                \/ questionnaires[id].answers.c = "bad"
        => result'.ok /\ result'.body.t \in {"object", "array"}]_vars

MessageIds == DOMAIN contactMessages.rows

\* What a status update returned: the status asked for is kept in body
StatusRes(ok, id, status) ==
  [op |-> "contactStatus", ok |-> ok, id |-> id, body |-> Str(status)]

\* No validation of the status: any value is written
anyStatus(status) == TRUE

\* PUT /contact-messages/:id/status: the validation of req.body.status
validStatus(status) == status \in {"unread", "read", "replied"}

\* POST /api/contact with a body that passes the validators:
\* ContactMessage.create, the status left to the column's DEFAULT 'unread'
ContactCreate ==
  /\ contactMessages.nextId <= MaxId
  /\ contactMessages' =
       [rows |-> [i \in MessageIds \cup {contactMessages.nextId} |->
                    IF i = contactMessages.nextId
                    THEN [status |-> "unread", created_at |-> now, updated_at |-> now]
                    ELSE contactMessages.rows[i]],
        nextId |-> contactMessages.nextId + 1]
  /\ result' = Res("contact", TRUE, contactMessages.nextId)
  /\ UNCHANGED <<dbVars, normVars, backend, sweeps>>

\* ContactMessage.updateStatus and ContactMessage.delete throw 'Mensaje no
\* encontrado' when RETURNING gives no row; the SQLite adapter cuts the
\* RETURNING clause and answers one row whatever the statement matched
notFound(id) == backend = "postgres" /\ id \notin MessageIds

\* PUT /api/admin/contact-messages/:id/status
ContactStatus ==
  /\ \E id \in 1..MaxId, status \in {"unread", "read", "replied", "archived", ""} :
       IF ~validStatus(status) \/ notFound(id)
       THEN result' = StatusRes(FALSE, id, status) /\ UNCHANGED contactMessages
       ELSE /\ contactMessages' =
                 IF id \in MessageIds
                 THEN [contactMessages EXCEPT !.rows[id].status = status,
                                              !.rows[id].updated_at = now]
                 ELSE contactMessages
            /\ result' = StatusRes(TRUE, id, status)
  /\ UNCHANGED <<dbVars, normVars, backend, sweeps>>

\* DELETE /api/admin/contact-messages/:id
ContactDelete ==
  /\ \E id \in 1..MaxId :
       /\ contactMessages' =
            [contactMessages EXCEPT !.rows = [i \in MessageIds \ {id} |-> @[i]]]
       /\ result' = Res("contactDelete", ~notFound(id), id)
  /\ UNCHANGED <<dbVars, normVars, backend, sweeps>>

NextContact ==
  \/ ContactCreate
  \/ ContactStatus
  \/ ContactDelete
  \/ Tick

SpecContact == Init /\ [][NextContact]_vars

\* C25: the status of every contact message is 'unread', 'read' or
\* 'replied'; a new message starts as 'unread', and the update of a status
\* to any other value is rejected and leaves the message as it was.
C25_ContactStatusValid ==
  /\ [](\A id \in MessageIds :
          contactMessages.rows[id].status \in {"unread", "read", "replied"})
  /\ [][/\ result'.op = "contact" /\ contactMessages' # contactMessages =>
             contactMessages'.rows[result'.id].status = "unread"
        /\ result'.op = "contactStatus" /\ now' = now
             /\ result'.body.s \notin {"unread", "read", "replied"} =>
             ~result'.ok /\ contactMessages' = contactMessages]_vars

\* C25 witness: a message that was read exists, and the update of its
\* status to 'archived' was rejected
C25_Witness ==
  /\ result = StatusRes(FALSE, 1, "archived")
  /\ 1 \in MessageIds /\ contactMessages.rows[1].status = "read"

\* C26: the fix sweep deletes no row, the set of row ids is the same before
\* and after it; the clean sweep leaves every row it does not delete as it
\* was, updated_at included.
C26_SweepPoliciesDisjoint ==
  [][/\ fixStep => DOMAIN questionnaires' = Ids
     /\ cleanStep =>
          \A id \in Ids \cap DOMAIN questionnaires' :
            questionnaires'[id] = questionnaires[id]]_vars

\* C26 witness: at a later time a clean sweep deleted one row of two and
\* the row that remains still has the time it was created
C26_Witness ==
  /\ result.op = "clean" /\ result.ok
  /\ Get(result.body, "deleted") = Num(1) /\ Get(result.body, "remaining") = Num(1)
  /\ Cardinality(Ids) = 1
  /\ \A id \in Ids : /\ questionnaires[id].updated_at = questionnaires[id].created_at
                     /\ questionnaires[id].updated_at < now

\* C27: POST /:id/complete on an existing questionnaire leaves the row
\* completed, and POST /:id/save leaves it holding the submitted answers
\* (every save of NextLife submits CleanAnswers).
C27_RoutesReachTheRow ==
  [][\A id \in Ids :
       now' = now /\ result'.id = id =>
         /\ result'.op = "complete" =>
              id \in DOMAIN questionnaires' /\ questionnaires'[id].status = "completed"
         /\ result'.op = "save" =>
              id \in DOMAIN questionnaires' /\ questionnaires'[id].answers = Json(CleanAnswers)]_vars

(***************************************************************************)
(* The sweeps statement by statement.  A handler gives way to the other    *)
(* requests at every await: each query is a step of its own, and what the  *)
(* handler read before it stays in its local variables.                    *)
(***************************************************************************)

\* The rows a SELECT returned, in the order ids gives: id and the row as
\* it was read
snapshot(ids) ==
  [k \in 1..Len(ids) |-> [id |-> ids[k], row |-> questionnaires[ids[k]]]]

RECURSIVE ascending(_)
\* The ids of S in the order of a SELECT with no ORDER BY (by id)
ascending(S) ==
  IF S = {} THEN <<>>
  ELSE LET h == CHOOSE a \in S : \A b \in S : a <= b
       IN <<h>> \o ascending(S \ {h})

\* fix sweep: the SELECT of every row
FixSelect ==
  /\ sweeps.fix.pc = "idle"
  /\ sweeps' = [sweeps EXCEPT !.fix = [pc |-> "loop", rows |-> snapshot(newestFirst(Ids)),
                                       i |-> 1, count |-> 0]]
  /\ UNCHANGED <<dbVars, result, normVars, backend, contactMessages>>

\* fix sweep: one turn of the loop, over the row as it was read: the row
\* is written back, or needs nothing, or the handler throws
FixRow ==
  /\ sweeps.fix.pc = "loop" /\ sweeps.fix.i <= Len(sweeps.fix.rows)
  /\ LET cur == sweeps.fix.rows[sweeps.fix.i]
         written == fixWrite(questionnaires, cur.id, cur.row, now, {})
     IN IF fixRowThrows(cur.row) \/ (needsUpdate(cur.row) /\ ~written.ok)
        THEN /\ sweeps' = [sweeps EXCEPT !.fix = Idle]
             /\ result' = Res("fix", FALSE, 0)
             /\ UNCHANGED questionnaires
        ELSE /\ questionnaires' = IF needsUpdate(cur.row) THEN written.table
                                  ELSE questionnaires
             /\ sweeps' = [sweeps EXCEPT
                             !.fix.i = @ + 1,
                             !.fix.count = IF needsUpdate(cur.row) THEN @ + 1 ELSE @]
             /\ UNCHANGED result
  /\ UNCHANGED <<users, nextUserId, nextId, now, normVars, backend, contactMessages>>

\* fix sweep: the response after the loop
FixRespond ==
  /\ sweeps.fix.pc = "loop" /\ sweeps.fix.i > Len(sweeps.fix.rows)
  /\ result' = Report("fix", fixReport(Len(sweeps.fix.rows), sweeps.fix.count))
  /\ sweeps' = [sweeps EXCEPT !.fix = Idle]
  /\ UNCHANGED <<dbVars, normVars, backend, contactMessages>>

\* clean sweep: the SELECT of every row and the choice of corruptedIds;
\* with none the handler responds at once
CleanSelect ==
  /\ sweeps.clean.pc = "idle"
  /\ IF corruptedIds = {}
     THEN result' = Report("clean", cleanReport(0, 0)) /\ UNCHANGED sweeps
     ELSE /\ sweeps' = [sweeps EXCEPT
                          !.clean = [pc |-> "delete", rows |-> snapshot(ascending(corruptedIds)),
                                     i |-> 1, count |-> Cardinality(Ids)]]
          /\ UNCHANGED result
  /\ UNCHANGED <<dbVars, normVars, backend, contactMessages>>

\* clean sweep: the DELETE of the next of corruptedIds
CleanDelete ==
  /\ sweeps.clean.pc = "delete" /\ sweeps.clean.i <= Len(sweeps.clean.rows)
  /\ questionnaires' = Without(sweeps.clean.rows[sweeps.clean.i].id)
  /\ sweeps' = [sweeps EXCEPT !.clean.i = @ + 1]
  /\ UNCHANGED <<users, nextUserId, nextId, now, result, normVars, backend, contactMessages>>

\* clean sweep: the SELECT COUNT(*) and the response
CleanCount ==
  /\ sweeps.clean.pc = "delete" /\ sweeps.clean.i > Len(sweeps.clean.rows)
  /\ result' = Report("clean", cleanReport(Len(sweeps.clean.rows), Cardinality(Ids)))
  /\ sweeps' = [sweeps EXCEPT !.clean = Idle]
  /\ UNCHANGED <<dbVars, normVars, backend, contactMessages>>

NextRace ==
  \/ Start({"pareja"}, {Ana})
  \/ Update({Undefined}, {MarkedAnswers, CleanAnswers}, {Undefined})
  \/ FixSelect
  \/ FixRow
  \/ FixRespond
  \/ CleanSelect
  \/ CleanDelete
  \/ CleanCount

SpecRace == Init /\ [][NextRace]_vars

\* C28: the write-back of the fix sweep replaces only what the sweep read:
\* the answers and personalInfo in the row at the moment of the write are
\* those of the SELECT, no update committed in between is overwritten.
C28_NoLostUpdate ==
  [][sweeps.fix.pc = "loop" /\ sweeps'.fix.i = sweeps.fix.i + 1 =>
       LET cur == sweeps.fix.rows[sweeps.fix.i]
       IN cur.id \in Ids /\ questionnaires' # questionnaires =>
            /\ questionnaires[cur.id].answers = cur.row.answers
            /\ questionnaires[cur.id].personal_info = cur.row.personal_info]_vars

\* C29: the clean sweep deletes a row only if the row is corrupted at the
\* moment of the DELETE, and the deleted and remaining counts of its report
\* add up to the number of rows it scanned.
C29_CleanSweepUnderConcurrency ==
  [][/\ sweeps.clean.pc = "delete" /\ sweeps'.clean.i = sweeps.clean.i + 1 =>
          LET id == sweeps.clean.rows[sweeps.clean.i].id
          IN id \in Ids => isCorrupted(questionnaires[id])
     /\ sweeps.clean.pc = "delete" /\ sweeps'.clean.pc = "idle" =>
          Get(result'.body, "deleted").n + Get(result'.body, "remaining").n
            = sweeps.clean.count]_vars

\* C30: the fix sweep is idempotent: a second run that follows a completed
\* run with no operation in between finds no row dirty, leaves the table as
\* it is and reports zero rows repaired.
C30_FixSweepIdempotent ==
  [][result.op = "fix" /\ result.ok /\ fixStep /\ result'.ok =>
       /\ \A id \in Ids : ~needsUpdate(questionnaires[id])
       /\ questionnaires' = questionnaires
       /\ Get(result'.body, "fixedCount") = Num(0)]_vars
====
